---- MODULE Spec2Model ----
(***************************************************************************)
(* Model of watch_updatedate.py: a single-process watcher that polls one    *)
(* page, extracts the list of change entries, compares it with the list     *)
(* kept in a JSON state file and mails the entries that are new.            *)
(*                                                                          *)
(* One process is modelled from launch (main) to its end (stopped by an     *)
(* interrupt, or ended by an uncaught exception), and a relaunch with the   *)
(* state file the previous run left behind.  Each blocking call of the      *)
(* program (HTTP fetch, SMTP session, file write, file replace, sleep) is   *)
(* one step, so that a failure or an interrupt can fall between any two.    *)
(***************************************************************************)
EXTENDS Naturals, Sequences, FiniteSets

VARIABLES
    pc,         \* position of the process in main / check_once
    cfg,        \* the Config value of load_config (SMTP part)
    file,       \* the state file cfg.state_file on disk
    tmp,        \* the temporary file cfg.state_file + ".tmp" on disk
    last_seen,  \* main's local last_seen (Optional[List[str]])
    arg,        \* check_once's parameter last_seen of the running call
    html,       \* the page returned by fetch_html, <<>> when none is held
    entries,    \* the local entries of bootstrap / check_once
    ret,        \* the call site save_last_seen returns to
    mails,      \* messages handed to SMTP since the current phase began
    writes,     \* documents put at the state file path since the phase began
    log,        \* log lines emitted since the current phase began
    smtp,       \* SMTP connections opened since the current phase began
    last_mailed, \* the extracted list of the latest email sent, by any run
    seen        \* what a reader of the state file path read last

vars == <<pc, cfg, file, tmp, last_seen, arg, html, entries, ret, mails, writes, log,
          smtp, last_mailed, seen>>

(***************************************************************************)
(* Bounds of the model.                                                    *)
(***************************************************************************)
\* Largest number of <br>-separated fragments of the paragraph of a page.
MaxParts == 2

(***************************************************************************)
(* Values.                                                                 *)
(***************************************************************************)
\* Optional[List[str]]: Python's None and a list.
None == [some |-> FALSE, val |-> <<>>]
Some(l) == [some |-> TRUE, val |-> l]

\* Python truthiness of an Optional[List[str]]: None and [] are falsy.
Truthy(o) == o.some /\ o.val # <<>>

\* The fragments a paragraph can hold between two <br> tags: a blank
\* fragment, two plain entries, and the first entry wrapped in markup
\* and followed by a space.
Fragments == {"", "a", "b", "<b>a</b> "}

\* re.sub(r"<.*?>", "", part).strip() on the fragments above.
Clean(part) == IF part = "<b>a</b> " THEN "a" ELSE part

SeqsUpTo(S, n) == UNION {[1..k -> S] : k \in 0..n}

\* re.split always yields at least one fragment.
PartSeqs == SeqsUpTo(Fragments, MaxParts) \ {<<>>}

\* The pages fetch_html can return: without the h3 heading, with the heading
\* but no following p, and with both.
Pages ==
    {[header |-> FALSE, para |-> FALSE, parts |-> <<"">>],
     [header |-> TRUE, para |-> FALSE, parts |-> <<"">>]}
    \cup {[header |-> TRUE, para |-> TRUE, parts |-> p] : p \in PartSeqs}

\* The SMTP part of Config: whether each string / list is non-empty, and the
\* TLS flag.
Configs ==
    [smtp_user : BOOLEAN, smtp_pass : BOOLEAN, from_email : BOOLEAN,
     to_emails : BOOLEAN, smtp_use_tls : BOOLEAN]

\* Contents of the state file path.
NoFile == [kind |-> "missing", val |-> <<>>]
Doc(l) == [kind |-> "doc", val |-> l]

\* The state files a launch can find: none, one that cannot be read, one
\* that is not JSON, JSON that is not an object, an object without the key,
\* and a document written by an earlier run.
StartFiles ==
    {[kind |-> k, val |-> <<>>] :
        k \in {"missing", "unreadable", "notjson", "notobject", "nokey"}}
    \cup {Doc(<<>>), Doc(<<"a">>), Doc(<<"b">>), Doc(<<"a", "b">>), Doc(<<"b", "a">>)}

\* The reader of the state file path has not read it yet.
Unread == [kind |-> "unread", val |-> <<>>]

InSeq(e, s) == \E i \in 1..Len(s) : s[i] = e

(***************************************************************************)
(* load_last_seen                                                          *)
(***************************************************************************)
\* The try body of load_last_seen: open fails for a missing or unreadable
\* file, json.load for a file that is not JSON, data.get for a JSON value
\* that is no object; dict.get gives None for an object without the key.
TryLoad(f) ==
    CASE f.kind = "missing" -> [exc |-> "FileNotFoundError", val |-> None]
      [] f.kind = "unreadable" -> [exc |-> "OSError", val |-> None]
      [] f.kind = "notjson" -> [exc |-> "JSONDecodeError", val |-> None]
      [] f.kind = "notobject" -> [exc |-> "AttributeError", val |-> None]
      [] f.kind = "nokey" -> [exc |-> "none", val |-> None]
      [] OTHER -> [exc |-> "none", val |-> Some(f.val)]

\* Handlers that catch only the missing file and the JSON error.
HandlesOnlyJson(exc) == exc \in {"FileNotFoundError", "JSONDecodeError"}

\* except FileNotFoundError / except Exception: every exception of the try
\* body is caught.
Handles(exc) ==
    exc \in {"FileNotFoundError", "OSError", "JSONDecodeError", "AttributeError"}

\* The result of load_last_seen: the value it returns, or raised = TRUE when
\* an exception leaves it.
load_last_seen(f) ==
    LET r == TryLoad(f)
    IN  IF r.exc = "none" THEN [raised |-> FALSE, val |-> r.val]
        ELSE IF Handles(r.exc) THEN [raised |-> FALSE, val |-> None]
        ELSE [raised |-> TRUE, val |-> None]

\* except Exception logs a warning; except FileNotFoundError does not.
load_warns(f) == TryLoad(f).exc \notin {"none", "FileNotFoundError"}

(***************************************************************************)
(* extract_latest_changes                                                  *)
(***************************************************************************)
\* An extraction that keeps only the first occurrence of each entry.
CleanNonEmptyUnique(parts) ==
    LET RECURSIVE Go(_, _)
        Go(rest, acc) ==
            IF rest = <<>> THEN acc
            ELSE LET clean == Clean(Head(rest))
                 IN  IF clean # "" /\ ~InSeq(clean, acc)
                     THEN Go(Tail(rest), Append(acc, clean))
                     ELSE Go(Tail(rest), acc)
    IN  Go(parts, <<>>)

RECURSIVE CleanNonEmpty(_)
CleanNonEmpty(parts) ==
    IF parts = <<>> THEN <<>>
    ELSE LET clean == Clean(Head(parts))
         IN  IF clean # "" THEN <<clean>> \o CleanNonEmpty(Tail(parts))
             ELSE CleanNonEmpty(Tail(parts))

\* ok = FALSE is the RuntimeError of a missing heading or paragraph.
extract_latest_changes(page) ==
    IF ~page.header THEN [ok |-> FALSE, entries |-> <<>>]
    ELSE IF ~page.para THEN [ok |-> FALSE, entries |-> <<>>]
    ELSE [ok |-> TRUE, entries |-> CleanNonEmpty(page.parts)]

(***************************************************************************)
(* check_once: the pure parts                                              *)
(***************************************************************************)
\* A positional diff: the entries that differ from the stored entry at the
\* same index.
NewEntriesPositional(es, ls) ==
    LET idx == {i \in 1..Len(es) : i > Len(ls) \/ es[i] # ls[i]}
        RECURSIVE Pick(_)
        Pick(i) == IF i > Len(es) THEN <<>>
                   ELSE IF i \in idx THEN <<es[i]>> \o Pick(i + 1) ELSE Pick(i + 1)
    IN  Pick(1)

\* new_entries = [e for e in entries if e not in last_seen]
NewEntries(es, ls) == SelectSeq(es, LAMBDA e : ~InSeq(e, ls))

\* A merge: the new entries put in front of the stored list.
SavedMerged(es, ls) == SelectSeq(es, LAMBDA e : ~InSeq(e, ls)) \o ls

\* The list check_once saves and returns after mailing the new entries.
SavedAfterChange(es, ls) == es

\* An empty extraction answered with the empty list (return []).
ReturnEmptyList(o) == Some(<<>>)

\* return last_seen or []
ReturnOnEmpty(o) == IF Truthy(o) THEN o ELSE Some(<<>>)

\* A guard that forgets the recipient list.
ConfiguredNoRecipients(c) == c.smtp_user /\ c.smtp_pass /\ c.from_email

\* The guard of send_email.
Configured(c) == c.smtp_user /\ c.smtp_pass /\ c.from_email /\ c.to_emails

\* The transport send_email uses.
Transport(c) == IF c.smtp_use_tls THEN "starttls" ELSE "ssl"

(***************************************************************************)
(* Positions                                                                *)
(***************************************************************************)
BootPcs == {"load", "boot_fetch", "boot_extract", "boot_log"}
CyclePcs == {"fetch", "extract", "decide", "send"}
SavePcs == {"save_tmp", "save_replace"}
LoopPcs == {"loop", "sleep"}
\* The ends of a process: the loop stopped by a caught KeyboardInterrupt, an
\* uncaught exception, an uncaught KeyboardInterrupt.
EndPcs == {"stopped", "crashed", "killed"}

InBootstrap == pc \in BootPcs \/ (pc \in SavePcs /\ ret = "boot")
InCycle == pc \in CyclePcs \/ (pc \in SavePcs /\ ret # "boot")
\* The try block of main: the while loop with check_once and the sleep.
InTry == InCycle \/ pc \in LoopPcs

(***************************************************************************)
(* How a call ends                                                          *)
(***************************************************************************)
\* An exception leaving the bootstrap of main is not caught: the process ends.
Uncaught ==
    /\ pc' = "crashed"
    /\ UNCHANGED <<last_seen, arg, log>>

\* No handler in the loop: the exception ends the process.
Escapes(e) ==
    /\ pc' = "crashed"
    /\ UNCHANGED <<last_seen, arg, log>>

\* except Exception in the loop: log and go on to the sleep; last_seen keeps
\* its value because the assignment never ran.
Caught(e) ==
    /\ pc' = "sleep"
    /\ log' = Append(log, <<"Check failed", e>>)
    /\ UNCHANGED <<last_seen, arg>>

\* fetch_html raises inside check_once.
FetchFailed == Caught("fetch")

\* A failed extraction taken for a page without entries: the stored list
\* is emptied.
ExtractFailedAsEmpty ==
    /\ pc' = "sleep"
    /\ log' = Append(log, <<"Check failed", "extract">>)
    /\ last_seen' = Some(<<>>)
    /\ UNCHANGED arg

\* extract_latest_changes raises inside check_once.
ExtractFailed == Caught("extract")

\* A failed send that is only logged, check_once going on to the save.
SendFailedSwallowed ==
    /\ pc' = "save_tmp"
    /\ ret' = "changed"
    /\ log' = Append(log, <<"Check failed", "send">>)
    /\ UNCHANGED <<last_seen, arg>>

\* send_email raises (settings missing, or the SMTP session fails): it
\* leaves check_once before save_last_seen is reached.
SendFailed ==
    /\ Caught("send")
    /\ UNCHANGED ret

\* An exception raised by save_last_seen, at either of its call sites.
Raise == IF InBootstrap THEN Uncaught ELSE Caught("save")

\* The result of check_once is not assigned (check_once(cfg, last_seen)
\* called as a statement).
ReturnDropped(o) ==
    /\ pc' = "sleep"
    /\ UNCHANGED <<last_seen, arg>>

\* check_once returns value o: main assigns it and goes on to the sleep.
Return(o) ==
    /\ pc' = "sleep"
    /\ last_seen' = o
    /\ UNCHANGED arg

(***************************************************************************)
(* Initial state: main has been entered                                     *)
(***************************************************************************)
Init ==
    /\ pc = "load"
    /\ cfg \in Configs
    /\ file \in StartFiles
    /\ tmp = NoFile
    /\ last_seen = None
    /\ arg = None
    /\ html = <<>>
    /\ entries = <<>>
    /\ ret = "none"
    /\ mails = <<>>
    /\ writes = <<>>
    /\ log = <<<<"Watching">>>>
    /\ smtp = <<>>
    /\ last_mailed = None
    /\ seen = Unread

(***************************************************************************)
(* main: startup and bootstrap                                              *)
(***************************************************************************)
\* last_seen = load_last_seen(cfg.state_file); if last_seen is None: ...
Load ==
    /\ pc = "load"
    /\ LET r == load_last_seen(file)
       IN  IF r.raised
           THEN Uncaught
           ELSE /\ last_seen' = r.val
                /\ log' = IF load_warns(file)
                          THEN Append(log, <<"Could not read state file">>) ELSE log
                /\ pc' = IF r.val = None THEN "boot_fetch" ELSE "loop"
                /\ UNCHANGED arg
    /\ UNCHANGED <<seen, smtp, last_mailed, cfg, file, tmp, html, entries, ret, mails, writes>>

\* html = fetch_html(cfg.url) of the bootstrap
BootFetch ==
    /\ pc = "boot_fetch"
    /\ \/ /\ \E p \in Pages : html' = <<p>>
          /\ pc' = "boot_extract"
          /\ UNCHANGED <<last_seen, arg, log>>
       \/ /\ Uncaught
          /\ UNCHANGED html
    /\ UNCHANGED <<seen, smtp, last_mailed, cfg, file, tmp, entries, ret, mails, writes>>

\* entries = extract_latest_changes(html); save_last_seen(...) is entered
BootExtract ==
    /\ pc = "boot_extract"
    /\ LET r == extract_latest_changes(html[1])
       IN  IF r.ok
           THEN /\ entries' = r.entries
                /\ pc' = "save_tmp"
                /\ ret' = "boot"
                /\ UNCHANGED <<last_seen, arg, log>>
           ELSE /\ Uncaught
                /\ UNCHANGED <<entries, ret>>
    /\ html' = <<>>
    /\ UNCHANGED <<seen, smtp, last_mailed, cfg, file, tmp, mails, writes>>

\* logging.info(..., len(entries), entries[0]); last_seen = entries
BootLog ==
    /\ pc = "boot_log"
    /\ IF entries = <<>>
       THEN Uncaught
       ELSE /\ pc' = "loop"
            /\ last_seen' = Some(entries)
            /\ log' = Append(log, <<"Initialized last_seen">>)
            /\ UNCHANGED arg
    /\ UNCHANGED <<seen, smtp, last_mailed, cfg, file, tmp, html, entries, ret, mails, writes>>

(***************************************************************************)
(* save_last_seen                                                           *)
(***************************************************************************)
\* The list the caller passes to save_last_seen.
SaveArg == IF ret = "changed" THEN SavedAfterChange(entries, arg.val) ELSE entries

\* A save that opens the state file itself for writing.
SaveTmpInPlace ==
    /\ pc = "save_tmp"
    /\ \/ /\ file' = Doc(SaveArg)
          /\ pc' = "save_replace"
          /\ UNCHANGED <<last_seen, arg, log, ret>>
       \/ /\ file' \in {file, [kind |-> "partial", val |-> <<>>]}
          /\ Raise
          /\ ret' = "none"
    /\ UNCHANGED <<seen, smtp, last_mailed, cfg, tmp, html, entries, mails, writes>>

\* with open(tmp, "w") as f: json.dump(...): the temporary file holds the
\* whole document, or what was written of it when the write failed.
SaveTmp ==
    /\ pc = "save_tmp"
    /\ \/ /\ tmp' = Doc(SaveArg)
          /\ pc' = "save_replace"
          /\ UNCHANGED <<last_seen, arg, log, ret>>
       \/ /\ tmp' \in {tmp, [kind |-> "partial", val |-> <<>>]}
          /\ Raise
          /\ ret' = "none"
    /\ UNCHANGED <<seen, smtp, last_mailed, cfg, file, html, entries, mails, writes>>

\* What follows save_last_seen at the site it was called from.
AfterSave ==
    CASE ret = "boot" ->
            /\ pc' = "boot_log"
            /\ UNCHANGED <<last_seen, arg, log>>
      [] ret = "first" ->
            /\ Return(Some(entries))
            /\ log' = Append(log, <<"Initialized">>)
      [] OTHER ->
            /\ Return(Some(SavedAfterChange(entries, arg.val)))
            /\ UNCHANGED log

\* os.replace(tmp, path)
SaveReplace ==
    /\ pc = "save_replace"
    /\ \/ /\ file' = tmp
          /\ tmp' = NoFile
          /\ writes' = Append(writes, tmp.val)
          /\ AfterSave
       \/ /\ Raise
          /\ UNCHANGED <<file, tmp, writes>>
    /\ ret' = "none"
    /\ UNCHANGED <<seen, smtp, last_mailed, cfg, html, entries, mails>>

(***************************************************************************)
(* check_once                                                               *)
(***************************************************************************)
\* The loop of main calls check_once(cfg, last_seen): a new cycle begins.
Call ==
    /\ pc = "loop"
    /\ pc' = "fetch"
    /\ arg' = last_seen
    /\ entries' = <<>>
    /\ mails' = <<>>
    /\ writes' = <<>>
    /\ log' = <<>>
    /\ smtp' = <<>>
    /\ UNCHANGED <<seen, last_mailed, cfg, file, tmp, last_seen, html, ret>>

\* html = fetch_html(cfg.url)
Fetch ==
    /\ pc = "fetch"
    /\ \/ /\ \E p \in Pages : html' = <<p>>
          /\ pc' = "extract"
          /\ UNCHANGED <<last_seen, arg, log>>
       \/ /\ FetchFailed
          /\ UNCHANGED html
    /\ UNCHANGED <<seen, smtp, last_mailed, cfg, file, tmp, entries, ret, mails, writes>>

\* entries = extract_latest_changes(html)
Extract ==
    /\ pc = "extract"
    /\ LET r == extract_latest_changes(html[1])
       IN  IF r.ok
           THEN /\ entries' = r.entries
                /\ pc' = "decide"
                /\ UNCHANGED <<last_seen, arg, log>>
           ELSE /\ ExtractFailed
                /\ UNCHANGED entries
    /\ html' = <<>>
    /\ UNCHANGED <<seen, smtp, last_mailed, cfg, file, tmp, ret, mails, writes>>

\* The branches of check_once after the extraction, up to the next call
\* that can block: empty list, first run, new entries, no new entries.
Decide ==
    /\ pc = "decide"
    /\ IF entries = <<>>
       THEN /\ Return(ReturnOnEmpty(arg))
            /\ log' = Append(log, <<"No entries found">>)
            /\ UNCHANGED ret
       ELSE IF ~arg.some
       THEN /\ pc' = "save_tmp"
            /\ ret' = "first"
            /\ UNCHANGED <<last_seen, arg, log>>
       ELSE IF NewEntries(entries, arg.val) # <<>>
       THEN /\ pc' = "send"
            /\ UNCHANGED <<last_seen, arg, log, ret>>
       ELSE /\ Return(arg)
            /\ log' = Append(log, <<"Ingen nye endringer">>)
            /\ UNCHANGED ret
    /\ UNCHANGED <<seen, smtp, last_mailed, cfg, file, tmp, html, entries, mails, writes>>

\* send_email(...); logging.info("Emailed ..."); save_last_seen is entered.
\* The guard of line 110 raises before any connection; otherwise one SMTP
\* connection of the configured kind is opened, and the session either
\* hands over the message or raises.
Send ==
    /\ pc = "send"
    /\ IF ~Configured(cfg)
       THEN /\ SendFailed
            /\ UNCHANGED <<mails, smtp, last_mailed>>
       ELSE /\ smtp' = Append(smtp, Transport(cfg))
            /\ \/ /\ mails' = Append(mails, [new_entries |-> NewEntries(entries, arg.val),
                                              transport |-> Transport(cfg)])
                  /\ last_mailed' = Some(entries)
                  /\ log' = Append(log, <<"Emailed">>)
                  /\ pc' = "save_tmp"
                  /\ ret' = "changed"
                  /\ UNCHANGED <<last_seen, arg>>
               \/ /\ SendFailed
                  /\ UNCHANGED <<mails, last_mailed>>
    /\ UNCHANGED <<seen, cfg, file, tmp, html, entries, writes>>

(***************************************************************************)
(* main: the loop, the interrupt, and a new launch                          *)
(***************************************************************************)
\* time.sleep(cfg.poll_seconds) returns
Sleep ==
    /\ pc = "sleep"
    /\ pc' = "loop"
    /\ UNCHANGED <<seen, smtp, last_mailed, cfg, file, tmp, last_seen, arg, html, entries, ret, mails, writes, log>>

\* An interrupt whose handler completes a save that was under way.
KeyboardInterruptFlushes ==
    /\ pc \notin EndPcs
    /\ IF InTry
       THEN /\ pc' = "stopped"
            /\ log' = Append(log, <<"Stopped by user.">>)
       ELSE /\ pc' = "killed"
            /\ UNCHANGED log
    /\ IF pc \in SavePcs /\ ret # "boot"
       THEN /\ file' = Doc(entries)
            /\ writes' = Append(writes, entries)
       ELSE UNCHANGED <<file, writes>>
    /\ UNCHANGED <<seen, smtp, last_mailed, cfg, tmp, last_seen, arg, html, entries, ret, mails>>

\* SIGINT: Python raises KeyboardInterrupt in the main thread wherever it
\* is.  Inside the try block of main it is caught and logged; during the
\* startup and the bootstrap nothing catches it.  A write of the temporary
\* file that it cuts short leaves a partial temporary file.
KeyboardInterrupt ==
    /\ pc \notin EndPcs
    /\ IF InTry
       THEN /\ pc' = "stopped"
            /\ log' = Append(log, <<"Stopped by user.">>)
       ELSE /\ pc' = "killed"
            /\ UNCHANGED log
    /\ tmp' \in IF pc = "save_tmp" THEN {tmp, [kind |-> "partial", val |-> <<>>]} ELSE {tmp}
    /\ UNCHANGED <<seen, smtp, last_mailed, cfg, file, last_seen, arg, html, entries, ret, mails, writes>>

\* The program is started again: only the files on disk survive.
Launch ==
    /\ pc \in EndPcs
    /\ pc' = "load"
    /\ last_seen' = None
    /\ arg' = None
    /\ html' = <<>>
    /\ entries' = <<>>
    /\ ret' = "none"
    /\ mails' = <<>>
    /\ writes' = <<>>
    /\ log' = <<<<"Watching">>>>
    /\ smtp' = <<>>
    /\ UNCHANGED <<seen, last_mailed, cfg, file, tmp>>

(***************************************************************************)
(* The process as main runs it                                              *)
(***************************************************************************)
Next ==
    \/ Load
    \/ BootFetch
    \/ BootExtract
    \/ BootLog
    \/ SaveTmp
    \/ SaveReplace
    \/ Call
    \/ Fetch
    \/ Extract
    \/ Decide
    \/ Send
    \/ Sleep
    \/ KeyboardInterrupt
    \/ Launch

Spec == Init /\ [][Next]_vars

(***************************************************************************)
(* The process with a concurrent reader of the state file path (a person    *)
(* or a program opening and reading the file).  What it reads is the        *)
(* content the path holds at that moment.                                   *)
(***************************************************************************)
ReaderReads ==
    /\ seen # file
    /\ seen' = file
    /\ UNCHANGED <<pc, cfg, file, tmp, last_seen, arg, html, entries, ret, mails, writes,
                   log, smtp, last_mailed>>

InitReader ==
    /\ Init
    /\ Configured(cfg)
    /\ cfg.smtp_use_tls

NextReader ==
    \/ Next
    \/ ReaderReads

SpecReader == InitReader /\ [][NextReader]_vars

(***************************************************************************)
(* The process while the page keeps showing the entry "b", without          *)
(* interrupts, and with a fetch, an email and a save that each succeed      *)
(* eventually when tried again and again.                                   *)
(***************************************************************************)
ShowsB(page) ==
    /\ page.header
    /\ page.para
    /\ InSeq("b", CleanNonEmpty(page.parts))

FetchShowingB == Fetch /\ (html' # <<>> => ShowsB(html'[1]))
BootFetchShowingB == BootFetch /\ (html' # <<>> => ShowsB(html'[1]))

FetchSucceeds == FetchShowingB /\ pc' = "extract"
SendSucceeds == Send /\ pc' = "save_tmp"
SaveTmpSucceeds == SaveTmp /\ pc' = "save_replace"
SaveReplaceSucceeds == SaveReplace /\ file' = tmp

NextLive ==
    \/ Load
    \/ BootFetchShowingB
    \/ BootExtract
    \/ BootLog
    \/ SaveTmp
    \/ SaveReplace
    \/ Call
    \/ FetchShowingB
    \/ Extract
    \/ Decide
    \/ Send
    \/ Sleep
    \/ Launch

\* The SMTP settings are complete: an email can succeed at all.
InitLive ==
    /\ Init
    /\ Configured(cfg)

SpecLive ==
    /\ InitLive
    /\ [][NextLive]_vars
    /\ WF_vars(NextLive)
    /\ SF_vars(FetchSucceeds)
    /\ SF_vars(SendSucceeds)
    /\ SF_vars(SaveTmpSucceeds)
    /\ SF_vars(SaveReplaceSucceeds)

(***************************************************************************)
(* check_once on its own: called in the loop of main with any argument its  *)
(* signature admits (None or a list), the state file missing or holding the *)
(* list of the argument, and its result passed to the next call.            *)
(***************************************************************************)
EntryLists == SeqsUpTo({"a", "b"}, MaxParts)

InitCheckOnce ==
    /\ pc = "loop"
    /\ cfg \in Configs
    /\ last_seen \in {None} \cup {Some(l) : l \in EntryLists}
    /\ file \in {NoFile, Doc(last_seen.val)}
    /\ tmp = NoFile
    /\ arg = None
    /\ html = <<>>
    /\ entries = <<>>
    /\ ret = "none"
    /\ mails = <<>>
    /\ writes = <<>>
    /\ log = <<>>
    /\ smtp = <<>>
    /\ last_mailed = None
    /\ seen = Unread

NextCheckOnce ==
    \/ Call
    \/ Fetch
    \/ Extract
    \/ Decide
    \/ Send
    \/ SaveTmp
    \/ SaveReplace
    \/ Sleep

SpecCheckOnce == InitCheckOnce /\ [][NextCheckOnce]_vars

(***************************************************************************)
(* Properties                                                               *)
(***************************************************************************)
RECURSIVE NotIn(_, _)
\* The entries of es that are no member of ls, in the order of es.
NotIn(es, ls) ==
    IF es = <<>> THEN <<>>
    ELSE IF \E i \in DOMAIN ls : ls[i] = Head(es)
         THEN NotIn(Tail(es), ls)
         ELSE <<Head(es)>> \o NotIn(Tail(es), ls)

Logged(line) == \E i \in DOMAIN log : log[i] = line
Failed == \E i \in DOMAIN log : log[i][1] = "Check failed"

\* The cycle is over: check_once has returned or raised, the loop sleeps.
CycleDone == pc = "sleep"

\* check_once was called with a stored list and extracted a non-empty list
\* with at least one entry that is not in the stored list.
ChangeFound ==
    /\ arg.some
    /\ entries # <<>>
    /\ \E i \in DOMAIN entries : \A j \in DOMAIN arg.val : arg.val[j] # entries[i]

\* check_once was called with a stored list and extracted a non-empty list
\* all of whose entries are in the stored list.
NothingNew ==
    /\ arg.some
    /\ entries # <<>>
    /\ \A i \in DOMAIN entries : \E j \in DOMAIN arg.val : arg.val[j] = entries[i]

\* C1: a cycle that finds entries not in the stored list, and in which the
\* email and the save succeed, sends exactly one email listing exactly the
\* entries that are not in the stored list, in extracted order, and leaves
\* the full extracted list both in the state file and in main's last_seen.
C1_ChangeMailedAndReplaced ==
    (CycleDone /\ ChangeFound /\ ~Failed) =>
        /\ Len(mails) = 1
        /\ mails[1].new_entries = NotIn(entries, arg.val)
        /\ writes = <<entries>>
        /\ file = Doc(entries)
        /\ last_seen = Some(entries)

\* The example of the specification: stored ["a"], extracted ["b", "a"].
C1_Witness ==
    /\ CycleDone /\ ~Failed
    /\ arg = Some(<<"a">>)
    /\ entries = <<"b", "a">>
    /\ Len(mails) = 1
    /\ mails[1].new_entries = <<"b">>
    /\ file = Doc(<<"b", "a">>)
    /\ last_seen = Some(<<"b", "a">>)

\* C2: when every extracted entry is in the stored list (the same set in any
\* order, or a subset), the cycle sends no email, writes no state file and
\* leaves main's last_seen as it was; the send and the save are never
\* entered.
C2_NothingNewNothingDone ==
    (NothingNew /\ pc # "decide") =>
        /\ mails = <<>>
        /\ writes = <<>>
        /\ last_seen = arg
        /\ pc \notin {"send", "save_tmp", "save_replace"}

\* The same set in another order.
C2_Witness ==
    /\ CycleDone
    /\ arg = Some(<<"a", "b">>)
    /\ entries = <<"b", "a">>
    /\ Logged(<<"Ingen nye endringer">>)
    /\ last_seen = arg
    /\ file = Doc(<<"a", "b">>)

\* send_email raised in this cycle.
SendRaised == Logged(<<"Check failed", "send">>)

\* C3 as stated: when send_email raises in a cycle that found new entries,
\* the extracted list is still written to the state file in that cycle.
C3_Original ==
    (CycleDone /\ ChangeFound /\ SendRaised) => file = Doc(entries)

\* C3 amended: when send_email raises in a cycle that found new entries,
\* check_once is left before the save: no email was sent, the state file is
\* not written in that cycle and main's last_seen keeps the stored list.
C3_FailedSendBlocksSave ==
    (CycleDone /\ ChangeFound /\ SendRaised) =>
        /\ mails = <<>>
        /\ writes = <<>>
        /\ last_seen = arg

\* The SMTP settings are missing and the page shows a new entry.
C3_Witness ==
    /\ CycleDone /\ ChangeFound /\ SendRaised
    /\ ~Configured(cfg)
    /\ file = Doc(arg.val)
    /\ file # Doc(entries)

\* C4: a bootstrap whose fetch or extraction fails does not end the
\* process: no step of the bootstrap fetch or extraction leads to the end
\* by an uncaught exception.
C4_BootstrapFailureSurvives ==
    [][(pc \in {"boot_fetch", "boot_extract"}) => pc' # "crashed"]_vars

\* C5: whatever list the bootstrap extracted and saved (the empty list
\* included), the bootstrap has then written the state file exactly once,
\* with that list, has sent no email, and goes on to the polling loop.
C5_BootstrapSeedsThenPolls ==
    [][(pc = "boot_log" /\ pc' # "killed") =>
            /\ pc' = "loop"
            /\ last_seen' = Some(entries)
            /\ writes' = <<entries>>
            /\ file' = Doc(entries)
            /\ mails' = <<>>]_vars

\* A step of the loop of main other than the interrupt.
LoopStep ==
    \/ Call \/ Fetch \/ Extract \/ Decide \/ Send \/ SaveTmp \/ SaveReplace \/ Sleep

\* C6: in the polling loop a failure of any step of a cycle is caught: a
\* step that starts inside the loop ends inside the loop unless it is the
\* interrupt; a cycle ends only in the sleep; a cycle starts only from the
\* top of the loop, which after the first cycle is reached only from the
\* sleep; and inside the loop a next step of the program is always possible.
C6_LoopSurvivesFailures ==
    /\ [](InTry => ENABLED LoopStep)
    /\ [][/\ (InTry /\ pc' # "stopped") => InTry'
          /\ (InCycle /\ ~InCycle' /\ pc' # "stopped") => pc' = "sleep"
          /\ (pc' = "fetch") => pc = "loop"
          /\ (pc' = "loop" /\ InTry) => pc = "sleep"]_vars

\* A cycle whose save failed after the email has reached the sleep.
C6_Witness ==
    /\ pc = "sleep"
    /\ Logged(<<"Check failed", "save">>)
    /\ Len(mails) = 1

\* C7 as stated: the loop is stopped only from the sleep or the top of the
\* loop, so that a process stopped after a cycle in which nothing failed
\* and an email was sent has also written the state file.
C7_Original ==
    [][(pc' = "stopped" /\ pc # "stopped") =>
            /\ pc \in LoopPcs
            /\ (mails # <<>> /\ ~Failed) => writes # <<>>]_vars

\* C7 amended: an interrupt is honoured wherever the process is inside the
\* try block of main, mid-cycle included: it stops the loop at once and
\* none of the remaining steps of the cycle run (no email is sent, the state
\* file and main's last_seen stay as they are), so an interrupt between the
\* email and the save leaves the email sent and the state not saved.
C7_InterruptCutsCycle ==
    [][(pc' = "stopped" /\ pc # "stopped") =>
            /\ InTry
            /\ UNCHANGED <<file, last_seen, mails, writes>>]_vars

\* Stopped between the email and the save.
C7_Witness ==
    /\ pc = "stopped"
    /\ ~Failed
    /\ Len(mails) = 1
    /\ writes = <<>>
    /\ file # Doc(entries)
    /\ last_seen = arg

\* C8: an interrupt at any point of the life of the process (the bootstrap
\* included) ends it in the stopped state with the final log line.
C8_InterruptAlwaysStops ==
    [][(pc \notin EndPcs /\ pc' \in {"stopped", "killed"}) =>
            /\ pc' = "stopped"
            /\ log'[Len(log')] = <<"Stopped by user.">>]_vars

\* The fetch or the extraction of this cycle raised.
FetchOrExtractRaised ==
    Logged(<<"Check failed", "fetch">>) \/ Logged(<<"Check failed", "extract">>)

\* C9: a cycle whose fetch or extraction fails writes no state file, sends
\* nothing, and leaves main's last_seen as the cycle found it.
C9_FailedExtractionKeepsState ==
    (CycleDone /\ FetchOrExtractRaised) =>
        /\ writes = <<>>
        /\ mails = <<>>
        /\ last_seen = arg
        /\ entries = <<>>

\* The heading is missing from the page while a list is stored.
C9_Witness ==
    /\ CycleDone
    /\ Logged(<<"Check failed", "extract">>)
    /\ arg = Some(<<"a", "b">>)
    /\ last_seen = arg
    /\ file = Doc(<<"a", "b">>)

\* C10: when the extraction yields the empty list, check_once warns, sends
\* no email, writes nothing and returns the state it was called with, the
\* absent state included.
C10_EmptyExtractionKeepsState ==
    (CycleDone /\ Logged(<<"No entries found">>)) =>
        /\ mails = <<>>
        /\ writes = <<>>
        /\ last_seen = arg

Distinct(l) == \A i, j \in DOMAIN l : l[i] = l[j] => i = j

\* The cleaned fragments of a paragraph, blank ones dropped, in page order.
CleanedParts(parts) ==
    LET cleaned == [i \in DOMAIN parts |-> Clean(parts[i])]
    IN  SelectSeq(cleaned, LAMBDA c : c # "")

\* C11 as stated: every list written to the state file consists of pairwise
\* distinct strings.
C11_Original ==
    /\ \A i \in DOMAIN writes : Distinct(writes[i])
    /\ file.kind = "doc" => Distinct(file.val)

\* C11 amended: every list written to the state file is the extracted list
\* as it is, and the extracted list is the page's cleaned non-blank
\* fragments in page order, repetitions kept: a written list holds an entry
\* twice when the page repeats it.
C11_WrittenAsExtracted ==
    /\ [](\A i \in DOMAIN writes : writes[i] = entries)
    /\ [][(pc \in {"extract", "boot_extract"} /\ pc' \in {"decide", "save_tmp"}) =>
              entries' = CleanedParts(html[1].parts)]_vars

\* The page repeats an entry (once plain, once in markup): the list is
\* written with the entry twice.
C11_Witness ==
    /\ writes = << <<"a", "a">> >>
    /\ file = Doc(<<"a", "a">>)
    /\ entries = <<"a", "a">>

\* C12: the state file path never holds a partially written document and a
\* reader never reads one; the content of the path changes only in the one
\* replace step, from what it held to the complete document that was passed
\* to save_last_seen and fully written to the temporary file; a save that
\* fails or is cut short leaves the path as it was.
C12_ReaderSeesWholeDocuments ==
    /\ [](/\ file.kind # "partial"
          /\ seen.kind # "partial"
          /\ pc = "save_replace" => tmp = Doc(SaveArg))
    /\ [][/\ (file' # file) => (pc = "save_replace" /\ file' = Doc(SaveArg))
          /\ (seen' # seen) => (seen' = file /\ file' = file)]_vars

\* A save failed part-way, leaving a partial temporary file; the reader
\* then read the state file and got the complete old document.
C12_Witness ==
    /\ tmp.kind = "partial"
    /\ Logged(<<"Check failed", "save">>)
    /\ seen = file
    /\ file.kind = "doc"
    /\ file # Doc(entries)

\* The state files that hold no stored list: missing, unreadable, not JSON,
\* JSON that is no object, an object without the key.
NoStoredList == {"missing", "unreadable", "notjson", "notobject", "nokey"}

\* C13: load_last_seen never raises (no state file makes the load step end
\* the process by an exception), and for a missing file, an unreadable
\* file, a file that is not JSON and JSON that is no object with the
\* expected key it returns None, so that main goes on to the bootstrap
\* exactly as for a missing file.
C13_BadStateFileIsAbsent ==
    [][(pc = "load" /\ pc' # "killed") =>
            /\ pc' # "crashed"
            /\ (file.kind \in NoStoredList) =>
                    (pc' = "boot_fetch" /\ last_seen' = None /\ file' = file)
            /\ (file.kind \notin NoStoredList) =>
                    (pc' = "loop" /\ last_seen' = Some(file.val))]_vars

\* The bootstrap has been entered with a state file that is JSON but no
\* object, and with one that is an object without the key.
C13_Witness ==
    /\ pc = "boot_fetch"
    /\ last_seen = None
    /\ file.kind \in {"notobject", "nokey"}
    /\ (file.kind = "notobject") = Logged(<<"Could not read state file">>)

\* One of the four settings send_email needs is empty.
SettingMissing ==
    ~cfg.smtp_user \/ ~cfg.smtp_pass \/ ~cfg.from_email \/ ~cfg.to_emails

\* C14: when the SMTP user, the password, the sender or the recipient list
\* is empty, send_email raises without opening a connection and without
\* sending; when all four are set it opens exactly one connection, of the
\* kind the TLS flag selects (STARTTLS when set, implicit TLS when not), and
\* sends exactly one message through it, or none if the SMTP session itself
\* raises.
C14_SendEmailGuard ==
    [][(pc = "send" /\ pc' # "stopped") =>
            IF SettingMissing
            THEN /\ smtp' = smtp
                 /\ mails' = mails
                 /\ pc' = "sleep"
                 /\ log' = Append(log, <<"Check failed", "send">>)
            ELSE LET mode == IF cfg.smtp_use_tls THEN "starttls" ELSE "ssl"
                 IN  /\ smtp' = Append(smtp, mode)
                     /\ \/ /\ Len(mails') = Len(mails) + 1
                           /\ mails'[Len(mails')].transport = mode
                           /\ pc' = "save_tmp"
                        \/ /\ mails' = mails
                           /\ pc' = "sleep"
                           /\ log' = Append(log, <<"Check failed", "send">>)]_vars

\* Only the recipient list is empty: send_email raised, no connection.
C14_Witness ==
    /\ pc = "sleep"
    /\ cfg.smtp_user /\ cfg.smtp_pass /\ cfg.from_email /\ ~cfg.to_emails
    /\ SendRaised
    /\ smtp = <<>>
    /\ mails = <<>>

\* C15: with this process the only writer of the state file, at the start
\* of every polling cycle (the top of the loop, the call of check_once) and
\* at its end (the sleep) main's last_seen is a list and the state file
\* holds exactly that list, whatever succeeded or failed before.
C15_MemoryMatchesFile ==
    (pc \in {"loop", "fetch", "sleep"}) =>
        /\ last_seen.some
        /\ file = Doc(last_seen.val)

\* A cycle that sent its email and then failed to save: the file and
\* last_seen both still hold the old list.
C15_Witness ==
    /\ pc = "sleep"
    /\ Logged(<<"Check failed", "save">>)
    /\ Len(mails) = 1
    /\ file = Doc(last_seen.val)
    /\ last_seen.val # entries

\* This step hands a message to SMTP.
MailSent == Len(mails') = Len(mails) + 1

\* C16 as stated: once an email has been sent for an extracted list, no
\* later cycle and no later run that extracts the same list sends another
\* email for it.
C16_Original ==
    [][MailSent => last_mailed # Some(entries)]_vars

\* C16 amended: an extracted list is announced only while the state file
\* and the stored list do not hold it: once the save that follows the email
\* has completed, no cycle and no later run that extracts the same list
\* while the state file holds it sends another email.  (When the save fails
\* or an interrupt falls between the email and the save, the state file
\* still holds the old list and the next cycle or run that extracts the
\* same list sends the email again.)
C16_NoMailForSavedList ==
    [][MailSent =>
            /\ file # Doc(entries)
            /\ arg # Some(entries)
            /\ file = Doc(arg.val)]_vars

\* A later cycle extracts the list of the latest email, which the state
\* file holds, and sends nothing.
C16_Witness ==
    /\ pc = "sleep"
    /\ entries # <<>>
    /\ last_mailed = Some(entries)
    /\ file = Doc(entries)
    /\ mails = <<>>
    /\ Logged(<<"Ingen nye endringer">>)

\* The process is in the polling loop with complete SMTP settings and a
\* stored list that lacks the entry "b" the page keeps showing.
EntryPending ==
    /\ InTry
    /\ Configured(cfg)
    /\ last_seen.some
    /\ ~InSeq("b", last_seen.val)

\* An email listing "b" has been sent in this cycle and the state file and
\* the stored list hold "b".
EntryAnnouncedAndStored ==
    /\ \E i \in DOMAIN mails : InSeq("b", mails[i].new_entries)
    /\ file.kind = "doc"
    /\ InSeq("b", file.val)
    /\ last_seen.some
    /\ InSeq("b", last_seen.val)

\* C17: while the page keeps showing an entry that the stored list lacks,
\* with no interrupt and with fetch, email and save each succeeding
\* eventually, an email listing the entry is eventually sent and the stored
\* list then holds it; until then no cycle, failed or not, puts the entry
\* into the stored list or the state file without the email.
C17_PendingEntryIsAnnounced ==
    /\ EntryPending ~> EntryAnnouncedAndStored
    /\ [][(EntryPending /\ InTry' /\ file'.kind = "doc" /\ InSeq("b", file'.val)) =>
              EntryAnnouncedAndStored']_vars

\* The entry was new to the cycle that has just mailed and saved it.
C17_Witness ==
    /\ pc = "sleep"
    /\ arg.some
    /\ ~InSeq("b", arg.val)
    /\ EntryAnnouncedAndStored
    /\ ~Failed

====
